---- MODULE Spec2Model ----
(***************************************************************************)
(* A model of src/TSP.cpp: TSP::constructCities (the .tsp file reader),    *)
(* TSP::getStartCity, TSP::nearestNeighbor (the greedy tour builder) and   *)
(* TSP::Tour::display.  One behaviour is one call of constructCities on a  *)
(* file, or one call of nearestNeighbor on a list of cities followed by    *)
(* display() of the tour it returned.                                      *)
(***************************************************************************)
EXTENDS Integers, Sequences, FiniteSets, TLC

\* The longest list of cities handed to nearestNeighbor.
MaxN == 3
\* The longest input file, in lines.
MaxLines == 3

\* std::numeric_limits<size_t>::max() (also std::string::npos).  TLC's
\* integers are 32 bits wide, so the model's value is 2^31 - 1 instead of
\* 2^64 - 1; every distance of the model is far below both.
SizeMax == 2147483647

VARIABLES
  cities,      \* nearestNeighbor's parameter: a sequence of Nodes
  start_id,    \* nearestNeighbor's parameter
  pc,          \* the position in the running function
  startCity,   \* nearestNeighbor's local: the current end-of-path city
  tour,        \* nearestNeighbor's local, then its result: path, weights, total_distance
  visited,     \* nearestNeighbor's local std::unordered_map<size_t, bool>
  nextCity,    \* the scan's best candidate so far
  minDist,     \* the scan's best distance so far
  itr,         \* the scan's iterator: an index into cities, Len(cities)+1 is end()
  iters,       \* history: iterations of the while loop completed
  evals,       \* history: calls of distance() in the current scan
  i,           \* display's loop index (0-based, as in the source)
  out,         \* the lines display wrote to std::cout
  file,        \* constructCities: the lines of the input file
  readable,    \* constructCities: whether the file can be opened
  fin,         \* constructCities: the stream: lines consumed, eofbit, failbit
  line,        \* constructCities: the std::string line
  toks,        \* constructCities: the tokens left in the stream after the header
  nodes        \* constructCities: the list being built (its local "cities")

vars == <<cities, start_id, pc, startCity, tour, visited, nextCity, minDist,
          itr, iters, evals, i, out, file, readable, fin, line, toks, nodes>>

nnVars == <<cities, start_id, startCity, tour, visited, nextCity, minDist,
            itr, iters, evals>>
readVars == <<file, readable, fin, line, toks, nodes>>
dispVars == <<i, out>>

----------------------------------------------------------------------------
(* Nodes and the inputs.                                                   *)

\* The plane locations the cities are drawn from: the 3-4-5 triangle of the
\* tour scenario, plus (3,0), which ties with (0,3) seen from (0,0) and lies
\* at a non-integral distance from (0,3).
Locations == {<<0, 0>>, <<0, 3>>, <<4, 0>>, <<3, 0>>}

Ids == 1..MaxN

Node(id, x, y) == [id |-> id, x |-> x, y |-> y]

NodeSet == {Node(id, l[1], l[2]) : id \in Ids, l \in Locations}

\* A value for a local that has not been assigned yet; never read.
NoNode == Node(0, 0, 0)

DistinctIds(cs) == \A a, b \in 1..Len(cs) : cs[a].id = cs[b].id => a = b

\* The lists of cities: every order, any locations (two cities may coincide),
\* identifiers unique, as a Point Collection has them; the identifiers need
\* not follow the order of the list.
PointCollections ==
  UNION {{cs \in [1..n -> NodeSet] : DistinctIds(cs)} : n \in 0..MaxN}

ISqrt(n) == CHOOSE r \in 0..n : r * r <= n /\ n < (r + 1) * (r + 1)

\* Node::distance: the Euclidean distance, truncated to a size_t.
distance(a, b) ==
  ISqrt((a.x - b.x) * (a.x - b.x) + (a.y - b.y) * (a.y - b.y))

\* A default-constructed Tour.
EmptyTour == [path |-> <<>>, weights |-> <<>>, total_distance |-> 0]

----------------------------------------------------------------------------
(* TSP::getStartCity                                                       *)

\* A variant that returns from the first iteration of the search loop.
getStartCity_AlwaysFirst(cs, id) == cs[1]

\* The first city of the list with the identifier, the first city when no
\* city has it.  Only defined on a non-empty list.
getStartCity(cs, id) ==
  IF \E k \in 1..Len(cs) : cs[k].id = id
    THEN cs[CHOOSE k \in 1..Len(cs) :
              cs[k].id = id /\ \A j \in 1..(k - 1) : cs[j].id # id]
    ELSE cs[1]

----------------------------------------------------------------------------
(* TSP::nearestNeighbor                                                    *)

\* A variant in which the start city is never entered into visited.
MarkStart_NoInsert(id) == <<>>

\* visited[startCity.id] == true;  operator[] inserts the key with a
\* value-initialised bool, and the comparison's result is discarded.
MarkStart(id) == (id :> FALSE)

\* visited[nextCity.id] = true;
MarkVisited(v, id) ==
  [k \in (DOMAIN v) \cup {id} |-> IF k = id THEN TRUE ELSE v[k]]

\* A variant that leaves the while loop one iteration early.
LoopCond_OffByOne(v, cs) == Cardinality(DOMAIN v) + 1 < Len(cs)

\* while (visited.size() < cities.size())
LoopCond(v, cs) == Cardinality(DOMAIN v) < Len(cs)

\* if (visited.find(itr->id) == visited.end())
Unvisited(v, id) == id \notin DOMAIN v

\* A variant in which the last city at the least distance wins.
Closer_OrEqual(temp, md) == temp <= md

\* if (temp < minDist)
Closer(temp, md) == temp < md

\* A variant that assigns where the source adds.
Accumulate_Overwrite(total, d) == d

\* tour.total_distance += ...  (a size_t; no sum of the model comes near
\* its width)
Accumulate(total, d) == total + d

\* A variant that measures the closing edge from the front of the path.
backToStartDist_FromFront(sc, path) == distance(path[1], path[1])

\* size_t backToStartDist = startCity.distance(tour.path.front());
backToStartDist(sc, path) == distance(sc, path[1])

\* What follows the resolution of the start city, up to the while loop.
Begin(sc) ==
  /\ startCity' = sc
  /\ tour' = [path |-> Append(EmptyTour.path, sc),
              weights |-> Append(EmptyTour.weights, 0),
              total_distance |-> EmptyTour.total_distance]
  /\ visited' = MarkStart(sc.id)
  /\ pc' = "loop"
  /\ UNCHANGED <<cities, start_id, nextCity, minDist, itr, iters, evals>>
  /\ UNCHANGED <<dispVars, readVars>>

\* The call on a non-empty list.
Enter ==
  /\ pc = "call"
  /\ cities # <<>>
  /\ Begin(getStartCity(cities, start_id))

\* The call on an empty list: getStartCity falls through its loop and
\* dereferences cities.begin(), which is end().  Undefined behaviour: the
\* process dies, or the read yields some Node and the function goes on.
EnterEmptyCrash ==
  /\ pc = "call"
  /\ cities = <<>>
  /\ pc' = "crashed"
  /\ UNCHANGED <<nnVars, dispVars, readVars>>

EnterEmptyGarbage ==
  /\ pc = "call"
  /\ cities = <<>>
  /\ \E g \in NodeSet \cup {Node(0, 0, 0)} : Begin(g)

\* The evaluation of the while condition; on entry to the body, the scan's
\* locals are initialised.
LoopTest ==
  /\ pc = "loop"
  /\ IF LoopCond(visited, cities)
       THEN /\ nextCity' = startCity
            /\ minDist' = SizeMax
            /\ itr' = 1
            /\ evals' = 0
            /\ pc' = "scan"
       ELSE /\ pc' = "close"
            /\ UNCHANGED <<nextCity, minDist, itr, evals>>
  /\ UNCHANGED <<cities, start_id, startCity, tour, visited, iters>>
  /\ UNCHANGED <<dispVars, readVars>>

\* One step of the for loop over cities.
ScanCity ==
  /\ pc = "scan"
  /\ itr <= Len(cities)
  /\ IF Unvisited(visited, cities[itr].id)
       THEN LET temp == distance(startCity, cities[itr])
            IN  /\ evals' = evals + 1
                /\ IF Closer(temp, minDist)
                     THEN minDist' = temp /\ nextCity' = cities[itr]
                     ELSE UNCHANGED <<minDist, nextCity>>
       ELSE UNCHANGED <<evals, minDist, nextCity>>
  /\ itr' = itr + 1
  /\ UNCHANGED <<cities, start_id, pc, startCity, tour, visited, iters>>
  /\ UNCHANGED <<dispVars, readVars>>

\* The end of the for loop: the rest of the while body.
Extend ==
  /\ pc = "scan"
  /\ itr > Len(cities)
  /\ tour' = [path |-> Append(tour.path, nextCity),
              weights |-> Append(tour.weights, minDist),
              total_distance |-> Accumulate(tour.total_distance, minDist)]
  /\ visited' = MarkVisited(visited, nextCity.id)
  /\ startCity' = nextCity
  /\ iters' = iters + 1
  /\ pc' = "loop"
  /\ UNCHANGED <<cities, start_id, nextCity, minDist, itr, evals>>
  /\ UNCHANGED <<dispVars, readVars>>

\* The closing edge and the return.
CloseLoop ==
  /\ pc = "close"
  /\ LET d == backToStartDist(startCity, tour.path)
     IN  tour' = [path |-> Append(tour.path, tour.path[1]),
                  weights |-> Append(tour.weights, d),
                  total_distance |-> Accumulate(tour.total_distance, d)]
  /\ pc' = "done"
  /\ UNCHANGED <<cities, start_id, startCity, visited, nextCity, minDist,
                 itr, iters, evals>>
  /\ UNCHANGED <<dispVars, readVars>>

----------------------------------------------------------------------------
(* TSP::Tour::display                                                      *)

EdgeLine(from, to, w) ==
  [text1 |-> "EDGE ", from |-> from, text2 |-> " -> ", to |-> to,
   text3 |-> " | WEIGHT : ", weight |-> w]

TotalLine(t) == [text1 |-> "TOTAL DISTANCE: ", value |-> t]

\* for (size_t i = 1; ...
DisplayCall ==
  /\ pc = "done"
  /\ i' = 1
  /\ pc' = "display"
  /\ UNCHANGED <<out, nnVars, readVars>>

\* One iteration of the for loop.  i and path.size() are 0-based in the
\* source: path[i] there is tour.path[i + 1] here.
DisplayEdge ==
  /\ pc = "display"
  /\ i < Len(tour.path)
  /\ out' = Append(out, EdgeLine(tour.path[i].id, tour.path[i + 1].id,
                                 tour.weights[i + 1]))
  /\ i' = i + 1
  /\ UNCHANGED <<pc, nnVars, readVars>>

DisplayTotal ==
  /\ pc = "display"
  /\ ~(i < Len(tour.path))
  /\ out' = Append(out, TotalLine(tour.total_distance))
  /\ pc' = "displayed"
  /\ UNCHANGED <<i, nnVars, readVars>>

----------------------------------------------------------------------------
(* TSP::constructCities                                                    *)

Marker == "NODE_COORD_SECTION"

\* A line is the sequence of its whitespace-separated tokens; a line of the
\* model starts with its first token.
LineSet == {<<"DIMENSION">>, <<Marker>>, <<"TYPE", Marker>>,
            <<"1", "0", "0">>, <<"2", "4", "0">>, <<"3", "3">>, <<"EOF">>}

\* The files: up to MaxLines lines, the last of which ends with a newline
\* (nl) or at the end of the file.
Files ==
  UNION {{[lines |-> ls, nl |-> b] :
            ls \in [1..n -> LineSet], b \in IF n = 0 THEN {TRUE} ELSE BOOLEAN} :
         n \in 0..MaxLines}

\* operator>> into a size_t or a double accepts these tokens.
IsNumber(t) == t \in {"0", "1", "2", "3", "4"}

NumVal(t) ==
  CASE t = "0" -> 0 [] t = "1" -> 1 [] t = "2" -> 2 [] t = "3" -> 3 [] t = "4" -> 4

RECURSIVE Flatten(_)
Flatten(ls) == IF ls = <<>> THEN <<>> ELSE Head(ls) \o Flatten(Tail(ls))

\* line.find("NODE_COORD_SECTION"): the offset of the first occurrence,
\* counted in tokens (0 exactly when the line starts with the marker),
\* npos when there is none.
Find(l) ==
  IF \E k \in 1..Len(l) : l[k] = Marker
    THEN (CHOOSE k \in 1..Len(l) :
            l[k] = Marker /\ \A j \in 1..(k - 1) : l[j] # Marker) - 1
    ELSE SizeMax

\* while (line.find("NODE_COORD_SECTION")): a size_t as a condition.
HeaderCond(l) == Find(l) # 0

\* std::ifstream fin(filename); if (fin.fail()) throw
Open ==
  /\ pc = "open"
  /\ pc' = IF readable THEN "getline" ELSE "threw"
  /\ UNCHANGED <<file, readable, fin, line, toks, nodes>>
  /\ UNCHANGED <<nnVars, dispVars>>

\* std::getline(fin, line): with eofbit or failbit set the sentry fails and
\* line is left as it is; otherwise line is erased and filled with the next
\* line.  Reaching the end of the file sets eofbit; extracting nothing sets
\* failbit too.
Getline ==
  /\ pc = "getline"
  /\ IF fin.eof \/ fin.fail
       THEN /\ fin' = [fin EXCEPT !.fail = TRUE]
            /\ UNCHANGED line
       ELSE IF fin.pos < Len(file.lines)
         THEN /\ line' = file.lines[fin.pos + 1]
              /\ fin' = [fin EXCEPT !.pos = fin.pos + 1,
                                    !.eof = (fin.pos + 1 = Len(file.lines) /\ ~file.nl)]
         ELSE /\ line' = <<>>
              /\ fin' = [fin EXCEPT !.eof = TRUE, !.fail = TRUE]
  /\ pc' = "test"
  /\ UNCHANGED <<file, readable, toks, nodes>>
  /\ UNCHANGED <<nnVars, dispVars>>

\* The do-while condition; leaving the loop, the rest of the stream is what
\* the formatted extractions will see.
HeaderTest ==
  /\ pc = "test"
  /\ IF HeaderCond(line)
       THEN pc' = "getline" /\ UNCHANGED toks
       ELSE /\ pc' = "data"
            /\ toks' = Flatten(SubSeq(file.lines, fin.pos + 1, Len(file.lines)))
  /\ UNCHANGED <<file, readable, fin, line, nodes>>
  /\ UNCHANGED <<nnVars, dispVars>>

\* while (!fin.eof())
DataTest ==
  /\ pc = "data"
  /\ pc' = IF ~fin.eof THEN "extract" ELSE "returned"
  /\ UNCHANGED <<file, readable, fin, line, toks, nodes>>
  /\ UNCHANGED <<nnVars, dispVars>>

\* if (!(fin >> ID >> x >> y)) break; cities.push_back(Node(ID, x, y));
\* An extraction that runs out of input sets eofbit and failbit, one that
\* meets a token that is no number sets failbit; the last number of a file
\* that does not end with a newline is read up to the end of the file, which
\* sets eofbit.
Extract ==
  /\ pc = "extract"
  /\ IF Len(toks) >= 3 /\ \A k \in 1..3 : IsNumber(toks[k])
       THEN /\ nodes' = Append(nodes, Node(NumVal(toks[1]), NumVal(toks[2]),
                                           NumVal(toks[3])))
            /\ toks' = SubSeq(toks, 4, Len(toks))
            /\ fin' = [fin EXCEPT !.eof = (Len(toks) = 3 /\ ~file.nl)]
            /\ pc' = "data"
       ELSE /\ fin' = [fin EXCEPT !.fail = TRUE,
                                    !.eof = \A k \in 1..Len(toks) :
                                              k <= 3 => IsNumber(toks[k])]
            /\ pc' = "returned"
            /\ UNCHANGED <<toks, nodes>>
  /\ UNCHANGED <<file, readable, line>>
  /\ UNCHANGED <<nnVars, dispVars>>

----------------------------------------------------------------------------
(* The calls.                                                              *)

NoStream == [pos |-> 0, eof |-> FALSE, fail |-> FALSE]

Locals ==
  /\ startCity = NoNode
  /\ tour = EmptyTour
  /\ visited = <<>>
  /\ nextCity = NoNode
  /\ minDist = 0
  /\ itr = 0
  /\ iters = 0
  /\ evals = 0
  /\ i = 0
  /\ out = <<>>
  /\ fin = NoStream
  /\ line = <<>>
  /\ toks = <<>>
  /\ nodes = <<>>

\* nearestNeighbor(cities, start_id), any list and any identifier (0 names
\* no city of any list).
InitTour ==
  /\ pc = "call"
  /\ cities \in PointCollections
  /\ start_id \in 0..MaxN
  /\ file = [lines |-> <<>>, nl |-> TRUE]
  /\ readable = TRUE
  /\ Locals

\* constructCities(filename), any file, readable or not.
InitRead ==
  /\ pc = "open"
  /\ file \in Files
  /\ readable \in BOOLEAN
  /\ cities = <<>>
  /\ start_id = 0
  /\ Locals

Init == InitTour \/ InitRead

Next ==
  \/ Enter \/ EnterEmptyCrash \/ EnterEmptyGarbage
  \/ LoopTest \/ ScanCity \/ Extend \/ CloseLoop
  \/ DisplayCall \/ DisplayEdge \/ DisplayTotal
  \/ Open \/ Getline \/ HeaderTest \/ DataTest \/ Extract

Spec == Init /\ [][Next]_vars

\* Each function is straight-line sequential code: whatever step is next is
\* taken.
FairSpec == Spec /\ WF_vars(Next)

----------------------------------------------------------------------------
(* Properties.                                                             *)

HasId(cs, id) == \E k \in 1..Len(cs) : cs[k].id = id

PathIds(p) == {p[k].id : k \in 1..Len(p)}

RECURSIVE Sum(_)
Sum(ws) == IF ws = <<>> THEN 0 ELSE Head(ws) + Sum(Tail(ws))

\* nearestNeighbor has returned its tour.
Returned == pc \in {"done", "display", "displayed"}

\* The behaviour is a call of nearestNeighbor.
TourCall == pc \in {"call", "loop", "scan", "close", "crashed"} \/ Returned

\* C1: for a non-empty list of n cities with distinct identifiers and a
\* start_id that names one of them, the returned path has n+1 elements, its
\* first and last elements are the city named by start_id, and its first n
\* elements hold every identifier of the list exactly once.
C1_ClosedTourOverAllCities ==
  (Returned /\ cities # <<>> /\ DistinctIds(cities) /\ HasId(cities, start_id)) =>
    LET n == Len(cities)
    IN  /\ Len(tour.path) = n + 1
        /\ \E k \in 1..n : /\ cities[k].id = start_id
                           /\ tour.path[1] = cities[k]
                           /\ tour.path[n + 1] = cities[k]
        /\ \A k \in 1..n :
             Cardinality({j \in 1..n : tour.path[j].id = cities[k].id}) = 1

\* A tour over three cities starting from one that is not first in the list.
C1_Witness ==
  /\ Returned
  /\ Len(cities) = 3
  /\ HasId(cities, start_id)
  /\ cities[1].id # start_id
  /\ Len(tour.path) = 4

\* C2: in every returned tour, weights is as long as path, weights[0] is 0
\* and every later weight, the closing edge's included, is the distance
\* between the two path elements it joins (indices are 1-based here).
C2_WeightsAreEdgeDistances ==
  Returned =>
    /\ Len(tour.weights) = Len(tour.path)
    /\ tour.weights[1] = 0
    /\ \A k \in 2..Len(tour.path) :
         tour.weights[k] = distance(tour.path[k - 1], tour.path[k])

\* A returned tour of three cities whose closing edge runs from (3,0) back
\* to (0,3): the square root of 18, weight 4.
C2_Witness ==
  /\ Returned
  /\ Len(tour.path) = 4
  /\ <<tour.path[3].x, tour.path[3].y>> = <<3, 0>>
  /\ <<tour.path[4].x, tour.path[4].y>> = <<0, 3>>
  /\ tour.weights[4] = 4

\* C3: total_distance is the sum of the weights appended so far, at every
\* point of the construction and in the returned tour.
C3_TotalIsSumOfWeights == tour.total_distance = Sum(tour.weights)

\* The scenario's tour, returned after two iterations: 0 + 3 + 5 + 4 = 12.
C3_Witness ==
  /\ Returned
  /\ iters = 2
  /\ tour.weights = <<0, 3, 5, 4>>
  /\ tour.total_distance = 12

\* C4: the city each iteration appends is one not yet in the path, at the
\* least distance from the path's last city among those, and the earliest
\* in the list among the ones at that distance.
C4_AppendsNearestEarliest ==
  [][(pc = "scan" /\ pc' = "loop") =>
       LET cur  == tour.path[Len(tour.path)]
           new  == tour'.path[Len(tour'.path)]
           Free == {k \in 1..Len(cities) : cities[k].id \notin PathIds(tour.path)}
       IN  /\ Len(tour'.path) = Len(tour.path) + 1
           /\ \E k \in Free :
                /\ new = cities[k]
                /\ \A j \in Free :
                     \/ distance(cur, cities[k]) < distance(cur, cities[j])
                     \/ /\ distance(cur, cities[k]) = distance(cur, cities[j])
                        /\ k <= j]_vars

\* The end of a scan in which two cities not yet in the path were at the
\* same least distance from the path's last city, and the earlier is the
\* candidate.
C4_Witness ==
  /\ pc = "scan"
  /\ itr > Len(cities)
  /\ \E j, k \in 1..Len(cities) :
       /\ j < k
       /\ cities[j].id \notin PathIds(tour.path)
       /\ cities[k].id \notin PathIds(tour.path)
       /\ cities[j].x # cities[k].x
       /\ distance(tour.path[Len(tour.path)], cities[j]) = minDist
       /\ distance(tour.path[Len(tour.path)], cities[k]) = minDist
       /\ nextCity = cities[j]

\* C5: with a start_id that names no city of a non-empty list, the call
\* fails with InvalidStartIdentifier and no tour is built.
C5_AbsentStartFails ==
  (TourCall /\ cities # <<>> /\ ~HasId(cities, start_id)) =>
    /\ pc \in {"call", "InvalidStartIdentifier"}
    /\ tour.path = <<>>

\* C6: on an empty list the call fails with EmptyCollection and no tour,
\* partial or otherwise, is built.
C6_EmptyCollectionFails ==
  (TourCall /\ cities = <<>>) =>
    /\ pc \in {"call", "EmptyCollection"}
    /\ tour.path = <<>>

NoMarker(f) == \A k \in 1..Len(f.lines) : Find(f.lines[k]) = SizeMax

\* C7: on a readable file none of whose lines carries the marker,
\* constructCities returns, and returns an empty list.
C7_NoMarkerReturnsEmpty ==
  (pc = "open" /\ readable /\ NoMarker(file)) ~>
    (pc = "returned" /\ nodes = <<>>)

\* C8: on a non-empty list of n cities with distinct identifiers, whatever
\* start_id, nearestNeighbor returns after exactly n-1 iterations of the
\* while loop, each a single pass over the list with at most n calls of
\* distance.
C8_TerminatesInNMinusOneScans ==
  /\ [](pc = "scan" => evals <= Len(cities) /\ itr <= Len(cities) + 1)
  /\ (pc = "call" /\ cities # <<>> /\ DistinctIds(cities)) ~>
       (pc = "done" /\ iters = Len(cities) - 1)

\* The return after two iterations over three cities, from a start_id that
\* names none of them.
C8_Witness ==
  /\ pc = "done"
  /\ Len(cities) = 3
  /\ iters = 2
  /\ ~HasId(cities, start_id)

\* The lines the documented format asks for.
DocumentedOutput ==
  [k \in 1..Len(tour.path) |->
     IF k < Len(tour.path)
       THEN [text1 |-> "EDGE ", from |-> tour.path[k].id, text2 |-> " -> ",
             to |-> tour.path[k + 1].id, text3 |-> " | WEIGHT: ",
             weight |-> tour.weights[k + 1]]
       ELSE TotalLine(tour.total_distance)]

\* C9: display writes one line "EDGE <from> -> <to> | WEIGHT: <weight>" per
\* edge, in path order, then one line with the total distance, and nothing
\* else.
C9_DisplayWritesDocumentedLines ==
  pc = "displayed" => out = DocumentedOutput

\* C10: the start city's identifier is a key of visited before and during
\* every scan; at every evaluation of the while condition the keys of
\* visited are the identifiers of the path and as many as the path is long;
\* so the path never holds a city twice.
C10_VisitedIsThePath ==
  /\ pc \in {"loop", "scan", "close"} => tour.path[1].id \in DOMAIN visited
  /\ pc = "loop" =>
       /\ DOMAIN visited = PathIds(tour.path)
       /\ Cardinality(DOMAIN visited) = Len(tour.path)
  /\ pc \in {"loop", "scan", "close"} =>
       \A a, b \in 1..Len(tour.path) :
         tour.path[a].id = tour.path[b].id => a = b

\* The while condition evaluated with three cities in the path.
C10_Witness ==
  /\ pc = "loop"
  /\ iters = 2
  /\ Len(tour.path) = 3
  /\ Cardinality(DOMAIN visited) = 3

====
